---- MODULE Spec2Model ----
(***************************************************************************)
(* A model of cow_vec_item (src/src/lib.rs): CowVec, a copy-on-write       *)
(* wrapper around Vec<T>, its checked mutable iterator CowVecIter, the     *)
(* per-element placeholder CowVecItemWrapper and fast_for_each_mut.        *)
(*                                                                         *)
(* Raw pointers are integer addresses.  The borrowed Vec lives at          *)
(* BorrowBase, the clone made by to_vec() at OwnBase, and a Vec that grew  *)
(* through the mutable passthrough at OwnBase or ReallocBase.  A load or   *)
(* a store goes to whichever storage the address falls in, so a stale      *)
(* pointer into the borrowed Vec really reads and writes the borrowed Vec. *)
(***************************************************************************)
EXTENDS Integers, Sequences, FiniteSets, TLC

VARIABLES
    sz,         \* std::mem::size_of::<T>() of the element type
    debug,      \* whether debug assertions are compiled in
    ext,        \* the external Vec the container was built from (<<>> for from_owned)
    content,    \* CowVecMain.content
    item,       \* CowVecMain.item, the cursor
    end,        \* CowVecMain.end
    detector,   \* CowVec.bad_wrapper_use_detector
    iter,       \* a CowVecIter of the container exists and can be advanced
    handles,    \* the CowVecItemWrapper values that exist
    mode,       \* what the caller is inside of
    fast,       \* the local state of fast_for_each_mut
    result,     \* the Vec last returned by into_owned / eager_cloned_iter_mut
    last,       \* the last operation and its outcome
    pos,        \* history: how many elements this traversal has passed
    reference,  \* history: an independent clone, written in lockstep
    ext0,       \* history: the external Vec at construction
    leaked,     \* history: a placeholder was forgotten, so never released
    thr         \* the deref_mut in progress on a thread a placeholder was sent to

vars == <<sz, debug, ext, content, item, end, detector, iter, handles, mode,
          fast, result, last, pos, reference, ext0, leaked, thr>>

(* ------------------------------ bounds -------------------------------- *)
MaxLen == 2         \* longest Vec
MaxHandles == 2     \* how many placeholders the caller keeps at once
MaxCbOps == 2       \* accesses one fast_for_each_mut callback makes
UsizeBits == 16     \* width of usize
MaxPos == 3         \* elements a traversal that races with a write passes
BorrowBase == 100   \* address of the borrowed Vec's buffer
OwnBase == 200      \* address of the buffer to_vec() allocates
ReallocBase == 300  \* address of a buffer a growing Vec moves to

ElemSizes == {0, 2}
Null == 0
Poison == 0 - 1
\* what a caller writes: a value no element starts with
WriteVals == IF sz = 0 THEN {0} ELSE {MaxLen + 1}
InitVec(n) == [i \in 1..n |-> IF sz = 0 THEN 0 ELSE i]

(* ------------------------- pointers and memory ------------------------ *)
SzMax == IF sz = 0 THEN 1 ELSE sz

PtrAdd(p, n) == IF sz = 0 THEN p + n ELSE p + n * sz

Dangling == SzMax

VecPtr(base, v) == IF sz = 0 \/ Len(v) = 0 THEN Dangling ELSE base

InRegion(p, base, n) ==
    /\ sz > 0
    /\ p >= base
    /\ p < base + n * sz
    /\ (p - base) % sz = 0

Slot(p, base) == ((p - base) \div sz) + 1

Load(c, e, p) ==
    IF sz = 0 THEN 0
    ELSE IF InRegion(p, BorrowBase, Len(e)) THEN e[Slot(p, BorrowBase)]
    ELSE IF c.tag = "Owned" /\ InRegion(p, c.base, Len(c.vec))
         THEN c.vec[Slot(p, c.base)]
    ELSE Poison

StoreContent(c, p, v) ==
    IF c.tag = "Owned" /\ InRegion(p, c.base, Len(c.vec))
    THEN [c EXCEPT !.vec[Slot(p, c.base)] = v]
    ELSE c

StoreExt(e, p, v) ==
    IF InRegion(p, BorrowBase, Len(e))
    THEN [e EXCEPT ![Slot(p, BorrowBase)] = v]
    ELSE e

(* ----------------------------- CowVecContent -------------------------- *)
Borrowed == [tag |-> "Borrowed", vec |-> <<>>, base |-> BorrowBase, clones |-> 0]

Owned(v, b, n) == [tag |-> "Owned", vec |-> v, base |-> b, clones |-> n]

is_owned(c) == c.tag = "Owned"

mut_pointer(c) ==
    IF c.tag = "Owned"
    THEN [ptr |-> VecPtr(c.base, c.vec), len |-> Len(c.vec)]
    ELSE [ptr |-> VecPtr(c.base, ext), len |-> Len(ext)]

\* mutant: ensure_owned without its early return for Owned
ensure_owned_always(c) ==
    Owned(IF c.tag = "Owned" THEN c.vec ELSE ext, OwnBase, c.clones + 1)

ensure_owned(c) ==
    IF c.tag = "Owned" THEN c ELSE Owned(ext, OwnBase, c.clones + 1)

Contents == IF content.tag = "Owned" THEN content.vec ELSE ext

(* --------------------------- CowVecItemWrapper ------------------------ *)
\* item, end, owned: the fields of CowVecItemWrapper.  History: idx, the
\* number of elements the traversal had passed before this one; src, the
\* method that returned it ("next" marks the latest result of next()).
Wrapper(p, e, o, i, s) ==
    [item |-> p, end |-> e, owned |-> o, idx |-> i, src |-> s]

\* history: next() is about to return a newer placeholder
Older(H) == {IF h.src = "next" THEN [h EXCEPT !.src = "next_old"] ELSE h : h \in H}

WrapperDeref(h) == Load(content, ext, h.item)

\* mutant: deref_mut that takes ownership and leaves self.item and self.end
\* pointing into the borrowed Vec
WrapperDerefMutStale(h, c, it, en) ==
    IF h.owned
    THEN [panic |-> FALSE, h |-> h, content |-> c, item |-> it, end |-> en]
    ELSE IF debug /\ is_owned(c)
    THEN [panic |-> TRUE, h |-> h, content |-> c, item |-> it, end |-> en]
    ELSE LET c1 == ensure_owned(c)
             pl == mut_pointer(c1)
             old_index_offset_from_end == (h.end - h.item) \div SzMax
         IN [panic |-> FALSE,
             h |-> [h EXCEPT !.owned = TRUE],
             content |-> c1,
             item |-> PtrAdd(pl.ptr, pl.len - old_index_offset_from_end + 1),
             end |-> PtrAdd(pl.ptr, pl.len)]

\* mutant: deref_mut that relocates self.item one element too far
WrapperDerefMutOffByOne(h, c, it, en) ==
    IF h.owned
    THEN [panic |-> FALSE, h |-> h, content |-> c, item |-> it, end |-> en]
    ELSE IF debug /\ is_owned(c)
    THEN [panic |-> TRUE, h |-> h, content |-> c, item |-> it, end |-> en]
    ELSE LET c1 == ensure_owned(c)
             pl == mut_pointer(c1)
             old_index_offset_from_end == (h.end - h.item) \div SzMax
             parent_item == PtrAdd(pl.ptr, pl.len - old_index_offset_from_end + 1)
         IN [panic |-> FALSE,
             h |-> [h EXCEPT !.owned = TRUE, !.item = parent_item,
                             !.end = PtrAdd(pl.ptr, pl.len)],
             content |-> c1, item |-> parent_item,
             end |-> PtrAdd(pl.ptr, pl.len)]

\* mutant: deref_mut that relocates the parent's item and leaves the parent's
\* end at the end of the borrowed Vec
WrapperDerefMutKeepParentEnd(h, c, it, en) ==
    IF h.owned
    THEN [panic |-> FALSE, h |-> h, content |-> c, item |-> it, end |-> en]
    ELSE IF debug /\ is_owned(c)
    THEN [panic |-> TRUE, h |-> h, content |-> c, item |-> it, end |-> en]
    ELSE LET index_offset_from_end_bytes == h.end - h.item
             c1 == ensure_owned(c)
             pl == mut_pointer(c1)
             old_index_offset_from_end == index_offset_from_end_bytes \div SzMax
             new_item == PtrAdd(pl.ptr, pl.len - old_index_offset_from_end)
             new_end == PtrAdd(pl.ptr, pl.len)
             parent_item == PtrAdd(pl.ptr, pl.len - old_index_offset_from_end + 1)
         IN [panic |-> FALSE,
             h |-> [h EXCEPT !.owned = TRUE, !.item = new_item, !.end = new_end],
             content |-> c1, item |-> parent_item, end |-> en]

\* deref_mut up to the point where it hands out &mut T, on content c and
\* the parent's cursor (it, en)
WrapperDerefMut(h, c, it, en) ==
    IF h.owned
    THEN [panic |-> FALSE, h |-> h, content |-> c, item |-> it, end |-> en]
    ELSE IF debug /\ is_owned(c)
    THEN [panic |-> TRUE, h |-> h, content |-> c, item |-> it, end |-> en]
    ELSE LET index_offset_from_end_bytes == h.end - h.item
             c1 == ensure_owned(c)
             pl == mut_pointer(c1)
             old_index_offset_from_end == index_offset_from_end_bytes \div SzMax
             new_item == PtrAdd(pl.ptr, pl.len - old_index_offset_from_end)
             new_end == PtrAdd(pl.ptr, pl.len)
             parent_item == PtrAdd(pl.ptr, pl.len - old_index_offset_from_end + 1)
         IN [panic |-> FALSE,
             h |-> [h EXCEPT !.owned = TRUE, !.item = new_item, !.end = new_end],
             content |-> c1, item |-> parent_item, end |-> new_end]

\* no placeholder is on another thread
NoThread == [pc |-> "none", h |-> Wrapper(Null, Null, FALSE, 0, "none"), off |-> 0]

\* fast_for_each_mut is not running: its locals do not exist
NoFast == [item |-> Null, end |-> Null, incb |-> FALSE, nops |-> 0]

Op(o, r, v) == [op |-> o, res |-> r, val |-> v]

RefWrite(r, i, v) == IF i + 1 <= Len(r) THEN [r EXCEPT ![i + 1] = v] ELSE r

(* -------------------------------- Init -------------------------------- *)
Init ==
    /\ sz \in ElemSizes
    /\ debug \in BOOLEAN
    /\ \E n \in 0..MaxLen : \E borrowing \in BOOLEAN :
         /\ ext = IF borrowing THEN InitVec(n) ELSE <<>>
         /\ content = IF borrowing THEN Borrowed ELSE Owned(InitVec(n), OwnBase, 0)
         /\ reference = InitVec(n)
         /\ last = Op(IF borrowing THEN "from" ELSE "from_owned", "ok", n)
    /\ ext0 = ext
    /\ item = Null
    /\ end = Null
    /\ detector = "Dead"
    /\ iter = FALSE
    /\ handles = {}
    /\ mode = "idle"
    /\ fast = NoFast
    /\ result = <<>>
    /\ pos = 0
    /\ leaked = FALSE
    /\ thr = NoThread

(* ------------------------------ operations ---------------------------- *)
\* The borrow checker lets the container itself be used only while no
\* CowVecIter and no placeholder of it is in use.
ContainerFree == mode = "idle" /\ handles = {}

Panic(o, v) ==
    /\ mode' = "panicked"
    /\ last' = Op(o, "panic", v)

\* mutant: iter_mut that keeps the cursor of an earlier traversal
iter_mut_resuming ==
    /\ ContainerFree
    /\ IF detector # "Dead"
       THEN /\ Panic("iter_mut", 0)
            /\ UNCHANGED <<item, end, iter, pos>>
       ELSE LET pl == mut_pointer(content) IN
            /\ item' = IF item = Null THEN pl.ptr ELSE item
            /\ end' = PtrAdd(pl.ptr, pl.len)
            /\ iter' = TRUE
            /\ pos' = 0
            /\ mode' = mode
            /\ last' = Op("iter_mut", "ok", 0)
    /\ UNCHANGED <<sz, debug, thr, ext, content, detector, handles, fast, result,
                   reference, ext0, leaked>>

iter_mut ==
    /\ ContainerFree
    /\ IF detector # "Dead"
       THEN /\ Panic("iter_mut", 0)
            /\ UNCHANGED <<item, end, iter, pos>>
       ELSE LET pl == mut_pointer(content) IN
            /\ item' = pl.ptr
            /\ end' = PtrAdd(pl.ptr, pl.len)
            /\ iter' = TRUE
            /\ pos' = 0
            /\ mode' = mode
            /\ last' = Op("iter_mut", "ok", 0)
    /\ UNCHANGED <<sz, debug, thr, ext, content, detector, handles, fast, result,
                   reference, ext0, leaked>>

\* mutant: next that hands out the element after the one the cursor was at
next_after_advance ==
    /\ mode = "idle"
    /\ iter
    /\ IF detector # "Dead"
       THEN /\ Panic("next", 0)
            /\ UNCHANGED <<item, detector, handles, pos>>
       ELSE IF item = end
       THEN /\ last' = Op("next", "none", 0)
            /\ UNCHANGED <<item, detector, handles, pos, mode>>
       ELSE /\ Cardinality(handles) < MaxHandles
            /\ detector' = "Alive"
            /\ item' = PtrAdd(item, 1)
            /\ handles' = Older(handles) \cup
                 {Wrapper(PtrAdd(item, 1), end, is_owned(content), pos, "next")}
            /\ pos' = pos + 1
            /\ mode' = mode
            /\ last' = Op("next", "some", 0)
    /\ UNCHANGED <<sz, debug, thr, ext, content, end, iter, fast, result,
                   reference, ext0, leaked>>

next ==
    /\ mode = "idle"
    /\ iter
    /\ IF detector # "Dead"
       THEN /\ Panic("next", 0)
            /\ UNCHANGED <<item, detector, handles, pos>>
       ELSE IF item = end
       THEN /\ last' = Op("next", "none", 0)
            /\ UNCHANGED <<item, detector, handles, pos, mode>>
       ELSE /\ Cardinality(handles) < MaxHandles
            /\ detector' = "Alive"
            /\ item' = PtrAdd(item, 1)
            /\ handles' = Older(handles) \cup
                 {Wrapper(item, end, is_owned(content), pos, "next")}
            /\ pos' = pos + 1
            /\ mode' = mode
            /\ last' = Op("next", "some", 0)
    /\ UNCHANGED <<sz, debug, thr, ext, content, end, iter, fast, result,
                   reference, ext0, leaked>>

UsizeMod == 2^UsizeBits

\* end as usize - item as usize overflows: a panic where overflow checks
\* are compiled in, a wrapped difference where they are not
SubOverflows == debug /\ end < item

\* mutant: the remaining length counted one too long
CursorLenOffByOne == (((end - item) % UsizeMod) \div SzMax) + 1

\* (end - item) / size_of::<T>().max(1), of count, size_hint and nth
CursorLen == ((end - item) % UsizeMod) \div SzMax

nth(n) ==
    /\ mode = "idle"
    /\ iter
    /\ IF SubOverflows
       THEN /\ Panic("nth", n)
            /\ UNCHANGED <<item, handles, pos>>
       ELSE IF n >= CursorLen
       THEN /\ last' = Op("nth", "none", n)
            /\ UNCHANGED <<item, handles, pos, mode>>
       ELSE LET at == PtrAdd(item, n) IN
            /\ Cardinality(handles) < MaxHandles
            /\ handles' = handles \cup
                 {Wrapper(at, end, is_owned(content), pos + n, "nth")}
            /\ item' = PtrAdd(at, 1)
            /\ pos' = pos + n + 1
            /\ mode' = mode
            /\ last' = Op("nth", "some", n)
    /\ UNCHANGED <<sz, debug, thr, ext, content, end, detector, iter, fast,
                   result, reference, ext0, leaked>>

count ==
    /\ mode = "idle"
    /\ iter
    /\ iter' = FALSE
    /\ IF SubOverflows
       THEN Panic("count", 0)
       ELSE /\ mode' = mode
            /\ last' = Op("count", "ok", CursorLen)
    /\ UNCHANGED <<sz, debug, thr, ext, content, item, end, detector, handles,
                   fast, result, pos, reference, ext0, leaked>>

size_hint ==
    /\ mode = "idle"
    /\ iter
    /\ IF SubOverflows
       THEN Panic("size_hint", 0)
       ELSE /\ mode' = mode
            /\ last' = Op("size_hint", "ok", CursorLen)
    /\ UNCHANGED <<sz, debug, thr, ext, content, item, end, detector, iter, handles,
                   fast, result, pos, reference, ext0, leaked>>

\* for_each up to its loop: the one check of the detector
for_each ==
    /\ mode = "idle"
    /\ iter
    /\ iter' = FALSE
    /\ IF detector # "Dead"
       THEN Panic("for_each", 0)
       ELSE /\ mode' = "foreach"
            /\ last' = Op("for_each", "ok", 0)
    /\ UNCHANGED <<sz, debug, thr, ext, content, item, end, detector, handles, fast,
                   result, pos, reference, ext0, leaked>>

\* one turn of for_each's loop; the callback reads or writes the placeholder
\* and drops it (keep = FALSE) or moves it out (keep = TRUE)
for_each_step(write, v, keep) ==
    /\ mode = "foreach"
    /\ IF item = end
       THEN /\ ~write /\ ~keep /\ v = CHOOSE w \in WriteVals : TRUE
            /\ mode' = "idle"
            /\ last' = Op("for_each", "done", 0)
            /\ UNCHANGED <<ext, content, item, end, detector, handles, pos,
                           reference>>
       ELSE LET retval == Wrapper(item, end, is_owned(content), pos, "for_each")
                r == IF write
                     THEN WrapperDerefMut(retval, content, PtrAdd(item, 1), end)
                     ELSE [panic |-> FALSE, h |-> retval, content |-> content,
                           item |-> PtrAdd(item, 1), end |-> end]
            IN
            /\ (write \/ v = CHOOSE w \in WriteVals : TRUE)
            /\ keep => Cardinality(handles) < MaxHandles
            /\ item' = r.item
            /\ end' = r.end
            /\ pos' = pos + 1
            /\ IF r.panic
               THEN /\ Panic("deref_mut", pos)
                    /\ UNCHANGED <<ext, content, detector, handles, reference>>
               ELSE /\ content' = IF write THEN StoreContent(r.content, r.h.item, v)
                                  ELSE r.content
                    /\ ext' = IF write THEN StoreExt(ext, r.h.item, v) ELSE ext
                    /\ reference' = IF write THEN RefWrite(reference, pos, v)
                                    ELSE reference
                    /\ handles' = IF keep THEN handles \cup {r.h} ELSE handles
                    /\ detector' = IF keep THEN detector ELSE "Dead"
                    /\ mode' = mode
                    /\ last' = Op("for_each", IF write THEN "write" ELSE "read",
                                  IF write THEN v ELSE Load(content, ext, item))
    /\ UNCHANGED <<sz, debug, thr, iter, fast, result, ext0, leaked>>

\* the caller may use a placeholder it holds between two operations of the
\* iterator and inside a for_each callback
HandleUsable == mode \in {"idle", "foreach"}

wrapper_deref(h) ==
    /\ HandleUsable
    /\ h \in handles
    /\ last' = Op("deref", "ok", WrapperDeref(h))
    /\ UNCHANGED <<sz, debug, thr, ext, content, item, end, detector, iter, handles,
                   mode, fast, result, pos, reference, ext0, leaked>>

wrapper_deref_mut(h, v) ==
    /\ HandleUsable
    /\ h \in handles
    /\ LET r == WrapperDerefMut(h, content, item, end) IN
       IF r.panic
       THEN /\ Panic("deref_mut", h.idx)
            /\ UNCHANGED <<ext, content, item, end, handles, reference>>
       ELSE /\ content' = StoreContent(r.content, r.h.item, v)
            /\ ext' = StoreExt(ext, r.h.item, v)
            /\ item' = r.item
            /\ end' = r.end
            /\ handles' = (handles \ {h}) \cup {r.h}
            /\ reference' = RefWrite(reference, h.idx, v)
            /\ mode' = mode
            /\ last' = Op("deref_mut", "ok", h.idx)
    /\ UNCHANGED <<sz, debug, thr, detector, iter, fast, result, pos, ext0, leaked>>

wrapper_drop(h) ==
    /\ HandleUsable
    /\ h \in handles
    /\ handles' = handles \ {h}
    /\ detector' = "Dead"
    /\ last' = Op("drop", "ok", 0)
    /\ UNCHANGED <<sz, debug, thr, ext, content, item, end, iter, mode, fast, result,
                   pos, reference, ext0, leaked>>

\* std::mem::forget: the placeholder is gone and its Drop never runs
wrapper_forget(h) ==
    /\ HandleUsable
    /\ h \in handles
    /\ handles' = handles \ {h}
    /\ leaked' = TRUE
    /\ last' = Op("forget", "ok", 0)
    /\ UNCHANGED <<sz, debug, thr, ext, content, item, end, detector, iter, mode,
                   fast, pos, result, reference, ext0>>

(* --------------------- a placeholder on another thread ---------------- *)
\* the placeholder next() returned is moved to a second thread
thread_send(h) ==
    /\ mode = "idle"
    /\ thr.pc = "none"
    /\ h \in handles
    /\ h.src = "next"
    /\ LET g == [h EXCEPT !.src = "sent"] IN
       /\ handles' = (handles \ {h}) \cup {g}
       /\ thr' = [pc |-> "ready", h |-> g, off |-> 0]
    /\ last' = Op("send", "ok", h.idx)
    /\ UNCHANGED <<sz, debug, ext, content, item, end, detector, iter, mode,
                   fast, result, pos, reference, ext0, leaked>>

\* deref_mut on the second thread, up to and including ensure_owned()
deref_mut_begin ==
    /\ mode = "idle"
    /\ thr.pc = "ready"
    /\ IF thr.h.owned
       THEN /\ thr' = [thr EXCEPT !.pc = "store"]
            /\ content' = content
            /\ mode' = mode
            /\ last' = Op("thread_deref_mut", "begin", thr.h.idx)
       ELSE IF debug /\ is_owned(content)
       THEN /\ Panic("thread_deref_mut", thr.h.idx)
            /\ UNCHANGED <<thr, content>>
       ELSE /\ thr' = [thr EXCEPT !.pc = "parent_item",
                                  !.off = thr.h.end - thr.h.item]
            /\ content' = ensure_owned(content)
            /\ mode' = mode
            /\ last' = Op("thread_deref_mut", "begin", thr.h.idx)
    /\ UNCHANGED <<sz, debug, ext, item, end, detector, iter, handles, fast,
                   result, pos, reference, ext0, leaked>>

\* ... mut_pointer(), the new positions, and self_parent.item = parent_item
deref_mut_parent_item ==
    /\ mode = "idle"
    /\ thr.pc = "parent_item"
    /\ LET pl == mut_pointer(content)
           old_index_offset_from_end == thr.off \div SzMax
       IN item' = PtrAdd(pl.ptr, pl.len - old_index_offset_from_end + 1)
    /\ thr' = [thr EXCEPT !.pc = "parent_end"]
    /\ last' = Op("thread_deref_mut", "parent_item", thr.h.idx)
    /\ UNCHANGED <<sz, debug, ext, content, end, detector, iter, handles, mode,
                   fast, result, pos, reference, ext0, leaked>>

\* ... self_parent.end = end and the placeholder's own fields
deref_mut_parent_end ==
    /\ mode = "idle"
    /\ thr.pc = "parent_end"
    /\ LET pl == mut_pointer(content)
           old_index_offset_from_end == thr.off \div SzMax
           new_end == PtrAdd(pl.ptr, pl.len)
           g == [thr.h EXCEPT !.owned = TRUE,
                              !.item = PtrAdd(pl.ptr, pl.len - old_index_offset_from_end),
                              !.end = new_end]
       IN /\ end' = new_end
          /\ handles' = (handles \ {thr.h}) \cup {g}
          /\ thr' = [thr EXCEPT !.pc = "store", !.h = g]
    /\ last' = Op("thread_deref_mut", "parent_end", thr.h.idx)
    /\ UNCHANGED <<sz, debug, ext, content, item, detector, iter, mode, fast,
                   result, pos, reference, ext0, leaked>>

\* ... and the write through the &mut T that deref_mut returned
deref_mut_store(v) ==
    /\ mode = "idle"
    /\ thr.pc = "store"
    /\ content' = StoreContent(content, thr.h.item, v)
    /\ ext' = StoreExt(ext, thr.h.item, v)
    /\ reference' = RefWrite(reference, thr.h.idx, v)
    /\ thr' = [thr EXCEPT !.pc = "ready", !.off = 0]
    /\ last' = Op("thread_deref_mut", "ok", thr.h.idx)
    /\ UNCHANGED <<sz, debug, item, end, detector, iter, handles, mode, fast,
                   result, pos, ext0, leaked>>

\* the second thread drops the placeholder
thread_drop ==
    /\ mode = "idle"
    /\ thr.pc = "ready"
    /\ handles' = handles \ {thr.h}
    /\ detector' = "Dead"
    /\ thr' = NoThread
    /\ last' = Op("thread_drop", "ok", 0)
    /\ UNCHANGED <<sz, debug, ext, content, item, end, iter, mode, fast, result,
                   pos, reference, ext0, leaked>>

(* ----------------------- operations of the container ------------------ *)
\* using the container ends the borrow a CowVecIter of it held
EndTraversal ==
    /\ iter' = FALSE
    /\ pos' = 0

cowvec_ensure_owned ==
    /\ ContainerFree
    /\ content' = ensure_owned(content)
    /\ EndTraversal
    /\ last' = Op("ensure_owned", "ok", 0)
    /\ UNCHANGED <<sz, debug, thr, ext, item, end, detector, handles, mode, fast,
                   result, reference, ext0, leaked>>

\* mutant: Deref for CowVec that takes ownership the way DerefMut does
cowvec_deref_owning ==
    /\ ContainerFree
    /\ content' = ensure_owned(content)
    /\ EndTraversal
    /\ last' = Op("deref_vec", "ok", Contents)
    /\ UNCHANGED <<sz, debug, thr, ext, item, end, detector, handles, mode, fast,
                   result, reference, ext0, leaked>>

\* Deref for CowVec: the read-only passthrough
cowvec_deref ==
    /\ ContainerFree
    /\ EndTraversal
    /\ last' = Op("deref_vec", "ok", Contents)
    /\ UNCHANGED <<sz, debug, thr, ext, content, item, end, detector, handles, mode,
                   fast, result, reference, ext0, leaked>>

\* mutant: DerefMut for CowVec that takes ownership only for a method that
\* writes
cowvec_deref_mut_lazy(vop, v, b) ==
    /\ ContainerFree
    /\ CASE vop = "nop" ->
              /\ b = ensure_owned(content).base /\ v = CHOOSE w \in WriteVals : TRUE
              /\ content' = content
              /\ reference' = reference
         [] vop = "push" ->
              LET c1 == ensure_owned(content) IN
              /\ Len(c1.vec) < MaxLen
              /\ (sz = 0 => b = c1.base)
              /\ content' = [c1 EXCEPT !.vec = Append(c1.vec, v), !.base = b]
              /\ reference' = Append(reference, v)
    /\ EndTraversal
    /\ last' = Op("deref_mut_vec", vop, v)
    /\ UNCHANGED <<sz, debug, thr, ext, item, end, detector, handles, mode, fast,
                   result, ext0, leaked>>

\* DerefMut for CowVec, followed by the Vec method the caller wanted:
\* one that writes nothing, or push(v), which may move the buffer to base b
cowvec_deref_mut(vop, v, b) ==
    /\ ContainerFree
    /\ LET c1 == ensure_owned(content) IN
       CASE vop = "nop" ->
              /\ b = c1.base /\ v = CHOOSE w \in WriteVals : TRUE
              /\ content' = c1
              /\ reference' = reference
         [] vop = "push" ->
              /\ Len(c1.vec) < MaxLen
              /\ (sz = 0 => b = c1.base)
              /\ content' = [c1 EXCEPT !.vec = Append(c1.vec, v), !.base = b]
              /\ reference' = Append(reference, v)
    /\ EndTraversal
    /\ last' = Op("deref_mut_vec", vop, v)
    /\ UNCHANGED <<sz, debug, thr, ext, item, end, detector, handles, mode, fast,
                   result, ext0, leaked>>

\* mutant: eager_cloned_iter_mut without its ensure_owned(): v.iter_mut() of
\* whatever Vec the content owns
eager_cloned_iter_mut_lazy ==
    /\ ContainerFree
    /\ content' = content
    /\ mode' = "eager"
    /\ EndTraversal
    /\ last' = Op("eager_cloned_iter_mut", "ok", Len(content'.vec))
    /\ UNCHANGED <<sz, debug, thr, ext, item, end, detector, handles, fast,
                   result, reference, ext0, leaked>>

\* eager_cloned_iter_mut: ensure_owned(), then v.iter_mut() of the owned Vec
eager_cloned_iter_mut ==
    /\ ContainerFree
    /\ content' = ensure_owned(content)
    /\ mode' = "eager"
    /\ EndTraversal
    /\ last' = Op("eager_cloned_iter_mut", "ok", Len(content'.vec))
    /\ UNCHANGED <<sz, debug, thr, ext, item, end, detector, handles, fast,
                   result, reference, ext0, leaked>>

\* next() of the std::slice::IterMut that eager_cloned_iter_mut returned:
\* the &mut T of the next element of the owned Vec, which the caller reads
\* or writes v to; pos is the iterator's position
eager_next(write, v) ==
    /\ mode = "eager"
    /\ IF pos < Len(content.vec)
       THEN /\ (write \/ v = CHOOSE w \in WriteVals : TRUE)
            /\ content' = IF write THEN [content EXCEPT !.vec[pos + 1] = v]
                           ELSE content
            /\ reference' = IF write THEN RefWrite(reference, pos, v)
                             ELSE reference
            /\ pos' = pos + 1
            /\ last' = Op("eager_next", IF write THEN "write" ELSE "read",
                          content.vec[pos + 1])
       ELSE /\ ~write /\ v = CHOOSE w \in WriteVals : TRUE
            /\ last' = Op("eager_next", "none", 0)
            /\ UNCHANGED <<content, reference, pos>>
    /\ UNCHANGED <<sz, debug, thr, ext, item, end, detector, iter, handles, mode,
                   fast, result, ext0, leaked>>

\* the iterator eager_cloned_iter_mut returned is dropped
eager_drop ==
    /\ mode = "eager"
    /\ mode' = "idle"
    /\ pos' = 0
    /\ last' = Op("eager_drop", "ok", 0)
    /\ UNCHANGED <<sz, debug, thr, ext, content, item, end, detector, iter,
                   handles, fast, result, reference, ext0, leaked>>

\* mutant: into_owned that returns a copy of the external Vec on both arms
into_owned_external ==
    /\ ContainerFree
    /\ result' = ext
    /\ mode' = "consumed"
    /\ EndTraversal
    /\ last' = Op("into_owned", "ok", Len(result'))
    /\ UNCHANGED <<sz, debug, thr, ext, content, item, end, detector, handles, fast,
                   reference, ext0, leaked>>

into_owned ==
    /\ ContainerFree
    /\ result' = IF content.tag = "Owned" THEN content.vec ELSE ext
    /\ mode' = "consumed"
    /\ EndTraversal
    /\ last' = Op("into_owned", "ok", Len(result'))
    /\ UNCHANGED <<sz, debug, thr, ext, content, item, end, detector, handles, fast,
                   reference, ext0, leaked>>

(* ---------------------------- fast_for_each_mut ----------------------- *)
InFast == mode \in {"fast_borrowed", "fast_owned"}

\* mutant: fast_for_each_mut that takes ownership before it visits anything
fast_for_each_mut_eager ==
    /\ ContainerFree
    /\ content' = ensure_owned(content)
    /\ LET pl == mut_pointer(content') IN
       fast' = [item |-> pl.ptr, end |-> PtrAdd(pl.ptr, pl.len),
                incb |-> FALSE, nops |-> 0]
    /\ mode' = "fast_owned"
    /\ EndTraversal
    /\ last' = Op("fast_for_each_mut", "ok", 0)
    /\ UNCHANGED <<sz, debug, thr, ext, item, end, detector, handles,
                   result, reference, ext0, leaked>>

\* fast_for_each_mut up to its loop
fast_for_each_mut ==
    /\ ContainerFree
    /\ LET pl == mut_pointer(content) IN
       fast' = [item |-> pl.ptr, end |-> PtrAdd(pl.ptr, pl.len),
                incb |-> FALSE, nops |-> 0]
    /\ mode' = IF ~is_owned(content) THEN "fast_borrowed" ELSE "fast_owned"
    /\ EndTraversal
    /\ last' = Op("fast_for_each_mut", "ok", 0)
    /\ UNCHANGED <<sz, debug, thr, ext, content, item, end, detector, handles,
                   result, reference, ext0, leaked>>

\* the loop test: leave the loop, or call f(&mut state)
fast_loop ==
    /\ InFast
    /\ ~fast.incb
    /\ IF fast.item # fast.end
       THEN /\ fast' = [fast EXCEPT !.incb = TRUE]
            /\ pos' = pos + 1
            /\ mode' = mode
            /\ last' = Op("fast_for_each_mut", "call", pos)
       ELSE /\ mode' = "idle"
            /\ fast' = NoFast
            /\ pos' = 0
            /\ last' = Op("fast_for_each_mut", "done", pos)
    /\ UNCHANGED <<sz, debug, thr, ext, content, item, end, detector, iter, handles,
                   result, reference, ext0, leaked>>

\* inside the callback: **item read
fast_item_deref ==
    /\ InFast
    /\ fast.incb
    /\ fast.nops < MaxCbOps
    /\ fast' = [fast EXCEPT !.nops = @ + 1]
    /\ last' = Op("fast_deref", "ok", Load(content, ext, fast.item))
    /\ UNCHANGED <<sz, debug, thr, ext, content, item, end, detector, iter, handles,
                   mode, result, pos, reference, ext0, leaked>>

\* mutant: deref_mut of BorrowedFastForeachItem that takes ownership and
\* leaves self.item and self.end pointing into the borrowed Vec
BorrowedDerefMutStale(st, c) == [st |-> st, content |-> ensure_owned(c)]

\* mutant: deref_mut of BorrowedFastForeachItem that relocates self.item and
\* leaves self.end at the end of the borrowed Vec
BorrowedDerefMutKeepEnd(st, c) ==
    IF is_owned(c)
    THEN [st |-> st, content |-> c]
    ELSE LET index_offset_from_end_bytes == st.end - st.item
             c1 == ensure_owned(c)
             pl == mut_pointer(c1)
             new_end == pl.ptr + pl.len * SzMax
         IN [st |-> [st EXCEPT !.item = new_end - index_offset_from_end_bytes],
             content |-> c1]

\* deref_mut of BorrowedFastForeachItem: the content and local state after it
BorrowedDerefMut(st, c) ==
    IF is_owned(c)
    THEN [st |-> st, content |-> c]
    ELSE LET index_offset_from_end_bytes == st.end - st.item
             c1 == ensure_owned(c)
             pl == mut_pointer(c1)
             new_end == pl.ptr + pl.len * SzMax
         IN [st |-> [st EXCEPT !.end = new_end,
                               !.item = new_end - index_offset_from_end_bytes],
             content |-> c1]

\* deref_mut of OwnedForEachItem
OwnedDerefMut(st, c) == [st |-> st, content |-> c]

\* inside the callback: **item = v
fast_item_deref_mut(v) ==
    /\ InFast
    /\ fast.incb
    /\ fast.nops < MaxCbOps
    /\ LET r == IF mode = "fast_borrowed" THEN BorrowedDerefMut(fast, content)
                ELSE OwnedDerefMut(fast, content) IN
       /\ fast' = [r.st EXCEPT !.nops = @ + 1]
       /\ content' = StoreContent(r.content, r.st.item, v)
       /\ ext' = StoreExt(ext, r.st.item, v)
    /\ reference' = RefWrite(reference, pos - 1, v)
    /\ last' = Op("fast_deref_mut", "ok", v)
    /\ UNCHANGED <<sz, debug, thr, item, end, detector, iter, handles, mode, result,
                   pos, ext0, leaked>>

\* the callback returns and the loop steps to the next element
fast_advance ==
    /\ InFast
    /\ fast.incb
    /\ fast' = [fast EXCEPT !.item = PtrAdd(@, 1), !.incb = FALSE, !.nops = 0]
    /\ last' = Op("fast_for_each_mut", "return", pos)
    /\ UNCHANGED <<sz, debug, thr, ext, content, item, end, detector, iter, handles,
                   mode, result, pos, reference, ext0, leaked>>

VecOps == {"nop", "push"}

(* ---------------------------- specifications -------------------------- *)
\* what a caller does who takes placeholders from next() and for_each only
\* and lets each one go before asking for another
Lockstep ==
    \/ iter_mut
    \/ next
    \/ count
    \/ size_hint
    \/ for_each
    \/ \E write \in BOOLEAN : \E v \in WriteVals : for_each_step(write, v, FALSE)
    \/ \E h \in handles : wrapper_deref(h)
    \/ \E h \in handles : \E v \in WriteVals : wrapper_deref_mut(h, v)
    \/ \E h \in handles : wrapper_drop(h)
    \/ cowvec_ensure_owned
    \/ cowvec_deref
    \/ \E vop \in VecOps, b \in {OwnBase, ReallocBase} :
         \E v \in WriteVals : cowvec_deref_mut(vop, v, b)
    \/ eager_cloned_iter_mut
    \/ \E write \in BOOLEAN : \E v \in WriteVals : eager_next(write, v)
    \/ eager_drop
    \/ into_owned
    \/ fast_for_each_mut
    \/ fast_loop
    \/ fast_item_deref
    \/ \E v \in WriteVals : fast_item_deref_mut(v)
    \/ fast_advance

\* a caller of next(), for_each and fast_for_each_mut whose for_each
\* callback may keep the placeholder it is given
NextNoNth ==
    \/ Lockstep
    \/ \E write \in BOOLEAN : \E v \in WriteVals : for_each_step(write, v, TRUE)

\* every use of the crate's interface
Next ==
    \/ Lockstep
    \/ \E n \in 0..MaxLen : nth(n)
    \/ \E write \in BOOLEAN : \E v \in WriteVals : for_each_step(write, v, TRUE)

\* and a caller who may also std::mem::forget a placeholder
NextLeak ==
    \/ Next
    \/ \E h \in handles : wrapper_forget(h)

\* a caller who may std::mem::forget placeholders that next() returned
NextLeakNext ==
    \/ Next
    \/ \E h \in handles : h.src \in {"next", "next_old"} /\ wrapper_forget(h)

\* the thread that owns the iterator uses next, nth, count and size_hint
\* while a second thread writes through a placeholder sent to it
NextThreads ==
    \/ iter_mut
    \/ pos < MaxPos /\ next
    \/ pos < MaxPos /\ \E n \in 0..MaxLen : nth(n)
    \/ count
    \/ size_hint
    \/ \E h \in handles : h # thr.h /\ wrapper_drop(h)
    \/ \E h \in handles : thread_send(h)
    \/ deref_mut_begin
    \/ deref_mut_parent_item
    \/ deref_mut_parent_end
    \/ \E v \in WriteVals : deref_mut_store(v)
    \/ thread_drop

Spec == Init /\ [][Next]_vars

SpecLockstep == Init /\ [][Lockstep]_vars

SpecLeak == Init /\ [][NextLeak]_vars

SpecLeakNext == Init /\ [][NextLeakNext]_vars

SpecThreads == Init /\ [][NextThreads]_vars

SpecNoNth == Init /\ [][NextNoNth]_vars

\* a caller of the container's own methods and of fast_for_each_mut
NextFast ==
    \/ cowvec_deref
    \/ \E vop \in VecOps, b \in {OwnBase, ReallocBase} :
         \E v \in WriteVals : cowvec_deref_mut(vop, v, b)
    \/ fast_for_each_mut
    \/ fast_loop
    \/ fast_item_deref
    \/ \E v \in WriteVals : fast_item_deref_mut(v)
    \/ fast_advance

\* fast_for_each_mut runs in the calling thread: its loop test and its step to
\* the next element happen whenever they are due
SpecFast ==
    Init /\ [][NextFast]_vars /\ WF_vars(fast_loop) /\ WF_vars(fast_advance)

(* -------------------------------- claims ------------------------------ *)
\* the cursor and a placeholder as indices into the container's storage
Start == mut_pointer(content).ptr
CurIdx == (item - Start) \div SzMax
Rem == Len(Contents) - CurIdx

ReadOnlyStep ==
    \/ last'.op \in {"iter_mut", "next", "nth", "count", "size_hint", "deref",
                     "drop", "deref_vec", "fast_deref"}
    \/ last'.op \in {"for_each", "fast_for_each_mut"} /\ last'.res # "write"

WriteStep ==
    \/ last'.op \in {"deref_mut", "fast_deref_mut"} /\ last'.res = "ok"
    \/ last'.op = "for_each" /\ last'.res = "write"

\* C1: the external Vec a container was built from by borrowing has, after
\* any sequence of operations through the container, exactly the contents
\* and the length it had at construction.
C1_ExternalUnchanged == ext = ext0

C1_Witness ==
    /\ sz > 0
    /\ Len(ext0) = MaxLen
    /\ content.tag = "Owned"
    /\ content.vec # ext0
    /\ last = Op("deref_mut", "ok", MaxLen - 1)

\* C2: when placeholders come from next() and each is released before the
\* next is requested, the visible contents equal an independent clone that
\* received the same writes at the same positions of the traversal.
C2_LockstepEquivalence == Contents = reference

C2_Witness ==
    /\ sz > 0
    /\ Len(ext0) = MaxLen
    /\ last = Op("next", "none", 0)
    /\ content.tag = "Owned"
    /\ Contents[1] = ext0[1]
    /\ Contents[MaxLen] # ext0[MaxLen]

\* C3: on a borrowed container a step that is no write access (iter_mut,
\* next, nth, count, size_hint, a for_each or fast_for_each_mut callback
\* that only reads, a read through a placeholder, its release, the
\* read-only passthrough) leaves is_owned() false.
C3_ReadsKeepBorrowed ==
    [][(content.tag = "Borrowed" /\ ReadOnlyStep) => content'.tag = "Borrowed"]_vars

C3_Witness ==
    /\ Len(ext0) = MaxLen
    /\ pos = MaxLen
    /\ last = Op("next", "none", 0)
    /\ content.tag = "Borrowed"

\* C4: a write access makes is_owned() true, is_owned() never goes back to
\* false, and the borrowed contents are cloned at most once.
C4_OwnedOnceForever ==
    [][ /\ (WriteStep => content'.tag = "Owned")
        /\ (content.tag = "Owned" => content'.tag = "Owned")
        /\ content'.clones <= 1 ]_vars

C4_Witness ==
    /\ sz > 0
    /\ Len(ext0) = MaxLen
    /\ content.clones = 1
    /\ \A i \in 1..MaxLen : Contents[i] # ext0[i]
    /\ last.op = "deref_mut"

\* C5: at most one placeholder issued by a traversal (by next, nth or
\* for_each) is outstanding.
C5_AtMostOneOutstanding == Cardinality(handles) <= 1

\* C6: next() called while the placeholder its previous next() returned is
\* unreleased panics, returns no second placeholder and leaves the cursor.
C6_NextWhileHeldPanics ==
    [][(last'.op = "next" /\ \E h \in handles : h.src = "next")
         => (last'.res = "panic" /\ handles' = handles /\ item' = item)]_vars

\* C7: with two placeholders of one traversal held, the write through the
\* second one after a write through the first panics, and no write through
\* a placeholder moves the cursor back.
C7_SecondWriteFails ==
    [][ /\ (/\ last.op = "deref_mut" /\ last.res = "ok"
            /\ last'.op = "deref_mut" /\ last'.val # last.val
            /\ \E g \in handles : g.idx = last.val)
           => last'.res = "panic"
        /\ (last'.op = "deref_mut" /\ last'.res = "ok") => CurIdx' >= CurIdx ]_vars

\* C8: iter_mut() called while a placeholder of an earlier traversal was
\* never released panics and leaves the cursor.
C8_IterMutWhileUnreleasedPanics ==
    [][(last'.op = "iter_mut" /\ leaked)
         => (last'.res = "panic" /\ item' = item /\ end' = end)]_vars

\* C9: nth(n) acts as n+1 calls of next(): it panics when a placeholder is
\* still alive, sets the detector to Alive when it returns one, gives it
\* owned = is_owned(), and leaves the cursor n+1 elements further.
C9_NthLikeRepeatedNext ==
    [][last'.op = "nth" =>
         /\ (handles # {} => last'.res = "panic")
         /\ (last'.res = "some" =>
               /\ detector' = "Alive"
               /\ \E h \in handles' \ handles : h.owned = (content.tag = "Owned")
               /\ CurIdx' = CurIdx + last'.val + 1) ]_vars

\* C10: with r elements remaining, nth(n) for n < r returns a placeholder
\* for the element n after the cursor and leaves r-n-1 remaining; for
\* n >= r it returns None and changes neither cursor, detector nor contents.
C10_NthSkips ==
    [][last'.op = "nth" =>
         LET r == Rem
             n == last'.val
         IN IF n < r
            THEN /\ last'.res = "some"
                 /\ \E h \in handles' \ handles :
                      /\ (h.item - Start) \div SzMax = CurIdx + n
                      /\ Load(content', ext', h.item) = Contents[CurIdx + n + 1]
                 /\ Rem' = r - n - 1
            ELSE /\ last'.res = "none"
                 /\ UNCHANGED <<item, end, detector, content, ext, handles>> ]_vars

C10_Witness ==
    /\ Len(Contents) = MaxLen
    /\ last = Op("nth", "some", MaxLen - 1)
    /\ item = end

\* C11: after a traversal over n elements has produced k of them, by next
\* and successful nth, size_hint() and count() report n - k, whatever the
\* element size and whether or not a write took ownership on the way.
C11_CountRemaining ==
    [][last'.op \in {"count", "size_hint"} => last'.val = Len(Contents) - pos]_vars

\* C12: every turn of for_each's loop makes the check next() makes: with a
\* placeholder of an earlier turn retained it panics instead of producing
\* another one, and a placeholder it hands out leaves the detector Alive
\* for as long as the callback's caller keeps it.
C12_ForEachChecksEachStep ==
    [][(mode = "foreach" /\ pos' = pos + 1) =>
         /\ (\E h \in handles : h.src = "for_each")
              => (last'.op = "for_each" /\ last'.res = "panic")
         /\ (handles' # handles => detector' = "Alive") ]_vars

\* one callback of a bulk visit on element k (counted from 1), as a caller
\* sees it: a read returns the element and changes nothing; a write of v
\* leaves the container owned with v in place k and nothing else changed
VisitRead(k, val) ==
    /\ k \in 1..Len(Contents)
    /\ val = Contents[k]
    /\ content' = content
    /\ ext' = ext

VisitWrite(k, v) ==
    /\ k \in 1..Len(Contents)
    /\ content'.tag = "Owned"
    /\ Contents' = [Contents EXCEPT ![k] = v]
    /\ ext' = ext
    /\ ext' = ext0

\* C13: iter_mut().for_each(f) and fast_for_each_mut(f) take the same steps
\* for a callback that reads or writes its element: the k-th call visits
\* element k, a read changes nothing, a write makes the container owned and
\* changes that element only, the external Vec is never changed, and the
\* visit ends exactly when every element has been visited.  So both end
\* with the same contents, the same is_owned() and the same external Vec.
C13_BulkVisitorsAgree ==
    [][ /\ (last'.op = "for_each" /\ last'.res = "read")
            => (VisitRead(pos + 1, last'.val) /\ pos' = pos + 1)
        /\ (last'.op = "for_each" /\ last'.res = "write")
            => (VisitWrite(pos + 1, last'.val) /\ pos' = pos + 1)
        /\ (last'.op = "fast_for_each_mut" /\ last'.res = "call")
            => (pos < Len(Contents) /\ pos' = pos + 1)
        /\ last'.op = "fast_deref" => VisitRead(pos, last'.val)
        /\ last'.op = "fast_deref_mut" => VisitWrite(pos, last'.val)
        /\ (last'.op \in {"for_each", "fast_for_each_mut"} /\ last'.res = "done")
            => pos = Len(Contents)
        /\ (last'.op \in {"for_each", "fast_for_each_mut"}
              /\ last'.res \in {"ok", "call", "return", "done"})
            => (content' = content /\ ext' = ext) ]_vars

C13_Witness ==
    /\ sz > 0
    /\ mode = "fast_borrowed"
    /\ pos = MaxLen
    /\ last.op = "fast_deref_mut"
    /\ content.tag = "Owned"
    /\ Contents[1] = ext0[1]
    /\ Contents[MaxLen] # ext0[MaxLen]

\* C14: the detector is Dead at construction and only the release of a
\* placeholder takes it from Alive to Dead; so with a placeholder of next()
\* never released (kept, or forgotten), every later next() and every later
\* iter_mut() panics.
C14_UnreleasedBlocksForever ==
    [][ /\ last.op \in {"from", "from_owned"} => detector = "Dead"
        /\ (detector = "Alive" /\ detector' = "Dead") => last'.op = "drop"
        /\ (last'.op = "next" /\ \E h \in handles : h.src \in {"next", "next_old"})
             => last'.res = "panic"
        /\ (last'.op \in {"next", "iter_mut"} /\ leaked)
             => last'.res = "panic" ]_vars

\* where the container's storage ends, and a position inside it
StorageEnd == PtrAdd(Start, Len(Contents))
Inside(p) == p >= Start /\ p <= StorageEnd /\ (p - Start) % SzMax = 0

\* C15: while a placeholder of next() is on a second thread, which writes
\* through it, and the first thread goes on with next, nth, count and
\* size_hint: the borrowed Vec is cloned at most once, that placeholder is
\* the only one alive, and between two writes the cursor and the
\* placeholder lie inside the container's current storage.
C15_HandleOnOtherThread ==
    thr.pc # "none" =>
      /\ content.clones <= 1
      /\ handles = {thr.h}
      /\ thr.pc = "ready" =>
           /\ Inside(item) /\ end = StorageEnd
           /\ Inside(thr.h.item) /\ thr.h.item < StorageEnd
           /\ thr.h.end = StorageEnd

\* C16: on an empty borrowed container next() returns None at once,
\* for_each and fast_for_each_mut never call their callback, count() and
\* size_hint() report 0, and none of them takes ownership.
C16_EmptyBorrowed ==
    [][(content.tag = "Borrowed" /\ Len(ext) = 0) =>
         /\ last'.op = "next" => last'.res = "none"
         /\ last'.op \in {"for_each", "fast_for_each_mut"}
              => last'.res \in {"ok", "done"}
         /\ last'.op \notin {"fast_deref", "fast_deref_mut", "deref", "deref_mut"}
         /\ last'.op \in {"count", "size_hint"} => last'.val = 0
         /\ last'.op \in {"iter_mut", "next", "for_each", "fast_for_each_mut",
                          "count", "size_hint"}
              => content' = content ]_vars

C16_Witness ==
    /\ Len(ext0) = 0
    /\ content.tag = "Borrowed"
    /\ last = Op("fast_for_each_mut", "done", 0)

\* C17: with zero-sized elements a container of n elements gives n
\* placeholders from next() and n callbacks from for_each and from
\* fast_for_each_mut, reports n - k remaining after k steps, and a write
\* leaves placeholder and cursor at the same logical index.
C17_ZeroSized ==
    [][sz = 0 =>
         /\ (last'.op = "next" /\ last'.res # "panic")
              => (last'.res = "some") = (pos < Len(Contents))
         /\ (last'.op = "for_each" /\ last'.res \in {"read", "write"})
              => pos < Len(Contents)
         /\ (last'.op = "fast_for_each_mut" /\ last'.res = "call")
              => pos < Len(Contents)
         /\ (last'.op \in {"for_each", "fast_for_each_mut"} /\ last'.res = "done")
              => pos = Len(Contents)
         /\ last'.op \in {"count", "size_hint"} => last'.val = Len(Contents) - pos
         /\ (last'.op = "deref_mut" /\ last'.res = "ok" /\ content.tag = "Borrowed")
              => /\ \E h \in handles' :
                      h.idx = last'.val /\ h.item - Start' = h.idx
                                        /\ h.end = StorageEnd'
                 /\ item' - Start' = item - Start
                 /\ end' = StorageEnd' ]_vars

\* C18: a traversal given up after some steps loses nothing: a write through
\* a placeholder changes its own element of the visible contents, no step
\* that is not a write changes them, and a later iter_mut() and the
\* read-only passthrough see them as they are.
C18_NoRollback ==
    [][ /\ (last'.op = "deref_mut" /\ last'.res = "ok")
            => \E h \in handles' : \E k \in 1..Len(Contents) : \E w \in WriteVals :
                 /\ h.idx = last'.val
                 /\ h.item = PtrAdd(Start', k - 1)
                 /\ Contents' = [Contents EXCEPT ![k] = w]
        /\ last'.op \in {"iter_mut", "next", "nth", "count", "size_hint", "drop",
                         "deref", "deref_vec"}
            => Contents' = Contents
        /\ last'.op = "deref_vec" => last'.val = Contents
        /\ (last'.op = "iter_mut" /\ last'.res = "ok")
            => (item' = Start /\ end' = StorageEnd)
        /\ (last'.op = "next" /\ last'.res = "some")
            => \E h \in handles' \ handles :
                 Load(content', ext', h.item) = Contents[CurIdx + 1] ]_vars

C18_Witness ==
    /\ sz > 0
    /\ Len(ext0) = MaxLen
    /\ content.clones = 1
    /\ Contents[1] # ext0[1]
    /\ Contents[MaxLen] = ext0[MaxLen]
    /\ last = Op("iter_mut", "ok", 0)

\* C19: from(&vec) gives is_owned() false and from_owned(vec) true;
\* ensure_owned() leaves is_owned() true and the contents as they were,
\* clones only a borrowed container, and changes nothing on an owned one.
C19_EnsureOwnedIdempotent ==
    [][ /\ last.op = "from" => ~is_owned(content)
        /\ last.op = "from_owned" => is_owned(content)
        /\ last'.op = "ensure_owned" =>
             /\ is_owned(content')
             /\ Contents' = Contents
             /\ ext' = ext
             /\ is_owned(content) => content' = content
             /\ content'.clones = content.clones + (IF is_owned(content) THEN 0 ELSE 1) ]_vars

C19_Witness ==
    /\ sz > 0
    /\ Len(ext0) = MaxLen
    /\ content = Owned(ext0, OwnBase, 1)
    /\ last = Op("ensure_owned", "ok", 0)

\* C20: an access through DerefMut of the container leaves is_owned() true
\* even when the Vec method writes nothing; Deref returns the current
\* contents and leaves is_owned() as it was.
C20_Passthroughs ==
    [][ /\ last'.op = "deref_mut_vec" => is_owned(content')
        /\ last'.op = "deref_vec" =>
             (content' = content /\ ext' = ext /\ last'.val = Contents) ]_vars

C20_Witness ==
    /\ sz > 0
    /\ Len(ext0) = MaxLen
    /\ content = Owned(ext0, OwnBase, 1)
    /\ last.op = "deref_mut_vec"
    /\ last.res = "nop"

\* C21: eager_cloned_iter_mut() leaves is_owned() true with the contents as
\* they were, whether or not the iterator it returns is advanced or written
\* through, and that iterator gives every element of the owned contents
\* once, in index order, and then None.
C21_EagerOwnsAndYieldsAll ==
    [][ /\ last'.op = "eager_cloned_iter_mut"
             => (is_owned(content') /\ Contents' = Contents /\ ext' = ext /\ pos' = 0)
        /\ mode' = "eager" => is_owned(content')
        /\ (last'.op = "eager_next" /\ last'.res # "none")
             => /\ pos < Len(Contents)
                /\ last'.val = Contents[pos + 1]
                /\ pos' = pos + 1
                /\ \A i \in 1..Len(Contents) : i # pos + 1 => Contents'[i] = Contents[i]
        /\ (last'.op = "eager_next" /\ last'.res = "none")
             => (pos = Len(Contents) /\ pos' = pos) ]_vars

C21_Witness ==
    /\ sz > 0
    /\ Len(ext0) = MaxLen
    /\ content = Owned(ext0, OwnBase, 1)
    /\ pos = MaxLen
    /\ last = Op("eager_next", "none", 0)

\* C22: into_owned() returns the visible contents at the time of the call -
\* the owned Vec itself when Owned, a clone of the external Vec when
\* Borrowed - and leaves the external Vec as it was.
C22_IntoOwnedReturnsContents ==
    [][ last'.op = "into_owned"
          => /\ result' = Contents
             /\ is_owned(content) => result' = content.vec
             /\ ~is_owned(content) => result' = ext
             /\ ext' = ext
             /\ ext' = ext0 ]_vars

C22_Witness ==
    /\ sz > 0
    /\ Len(ext0) = MaxLen
    /\ mode = "consumed"
    /\ last = Op("into_owned", "ok", MaxLen)
    /\ is_owned(content)
    /\ result # ext0
    /\ ext = ext0

\* C23: a write through a handle not marked owned while the container is
\* Borrowed ends with the container Owned, the handle marked owned and at the
\* same logical index of the new storage, the cursor's end at one past the
\* last element of the new storage and the cursor's current one element past
\* the handle; a write through a handle marked owned relocates nothing.
C23_FirstWriteRelocates ==
    [][ (last'.op = "deref_mut" /\ last'.res = "ok")
          => \E h \in handles : \E g \in handles' :
               /\ h.idx = last'.val /\ g.idx = h.idx
               /\ handles' \ {g} = handles \ {h}
               /\ g.owned
               /\ IF h.owned
                  THEN /\ g = h
                       /\ item' = item /\ end' = end
                       /\ content'.clones = content.clones
                       /\ content'.base = content.base
                  ELSE content.tag = "Borrowed"
                       => /\ is_owned(content')
                          /\ content'.clones = 1
                          /\ (g.item - Start') = (h.item - Start)
                          /\ g.end = StorageEnd'
                          /\ end' = StorageEnd'
                          /\ item' = PtrAdd(g.item, 1) ]_vars

C23_Witness ==
    /\ sz > 0
    /\ Len(ext0) = MaxLen
    /\ last = Op("deref_mut", "ok", 0)
    /\ content.tag = "Owned" /\ content.clones = 1
    /\ Contents[1] # ext0[1]
    /\ item = PtrAdd(Start, 1)
    /\ end = StorageEnd
    /\ \E g \in handles : g.owned /\ g.idx = 0 /\ g.item = Start /\ g.end = end

\* C25: iter_mut() with the guard Dead sets the cursor to the whole of the
\* container's current storage, whatever an earlier traversal or the mutable
\* passthrough did before.
C25_IterMutResetsCursor ==
    [][ (last'.op = "iter_mut" /\ last'.res = "ok")
          => /\ detector = "Dead"
             /\ item' = Start /\ end' = StorageEnd
             /\ Start' = Start /\ StorageEnd' = StorageEnd
             /\ (end' - item') = Len(Contents) * SzMax
             /\ iter' ]_vars

C25_Witness ==
    /\ sz > 0
    /\ last = Op("iter_mut", "ok", 0)
    /\ content.tag = "Owned" /\ content.clones = 1
    /\ content.base = ReallocBase
    /\ item = Start
    /\ end = PtrAdd(Start, Len(Contents))
    /\ Contents # ext0

\* the logical index a handle denotes, as the write path computes it: the
\* distance of the handle's item from the handle's end
HandleIndex(h) == Len(Contents) - ((h.end - h.item) \div SzMax)

\* C24: for its whole lifetime a handle denotes one logical element: a read
\* through it returns the container's current value at that index, and a
\* write through it changes that index and no other.
C24_HandleDenotesOneElement ==
    [][ /\ \A h \in handles' :
             Load(content', ext', h.item)
               = Contents'[Len(Contents') - ((h.end - h.item) \div SzMax) + 1]
        /\ (last'.op = "deref_mut" /\ last'.res = "ok")
             => \E h \in handles : \E w \in WriteVals :
                  /\ h.idx = last'.val
                  /\ Contents' = [Contents EXCEPT ![HandleIndex(h) + 1] = w] ]_vars

\* C26: a traversal by next() with every handle released before the
\* following call gives the elements 0, 1, ..., n-1 in that order, each once,
\* then None, and None again on every further call, wherever the ownership
\* transition happens.
C26_NextVisitsEachOnce ==
    [][ (last'.op = "next" /\ handles = {})
          => IF pos < Len(Contents)
             THEN /\ last'.res = "some"
                  /\ pos' = pos + 1
                  /\ \E h \in handles' :
                       /\ handles' = {h}
                       /\ h.item = PtrAdd(Start, pos)
                       /\ Load(content', ext', h.item) = Contents[pos + 1]
                  /\ Len(Contents') = Len(Contents)
             ELSE /\ last'.res = "none"
                  /\ pos = Len(Contents)
                  /\ UNCHANGED <<pos, item, end, handles, content>> ]_vars

C26_Witness ==
    /\ sz > 0
    /\ Len(ext0) = MaxLen
    /\ last = Op("next", "none", 0)
    /\ pos = MaxLen
    /\ handles = {}
    /\ content.tag = "Owned" /\ content.clones = 1
    /\ Contents[1] # ext0[1]
    /\ Contents[MaxLen] = ext0[MaxLen]

\* C27: fast_for_each_mut calls the callback once per index, in increasing
\* order, n times in all, and then ends, also when a write in the callback
\* takes ownership (the loop goes on in the new storage); in one callback a
\* read after a write returns the written value, and repeated writes clone
\* at most once.
C27_FastVisitsEachOnce ==
    /\ [][ /\ (last'.op = "fast_for_each_mut" /\ last'.res = "call")
                => /\ pos < Len(Contents)
                   /\ pos' = pos + 1
                   /\ fast.item = PtrAdd(Start, pos)
                   /\ fast.end = StorageEnd
           /\ (last'.op = "fast_for_each_mut" /\ last'.res = "done")
                => (pos = Len(Contents) /\ mode' = "idle")
           /\ last'.op = "fast_deref_mut"
                => /\ Contents' = [Contents EXCEPT ![pos] = last'.val]
                   /\ is_owned(content')
                   /\ content'.clones = content.clones + (IF is_owned(content) THEN 0 ELSE 1)
                   /\ fast'.item = PtrAdd(Start', pos - 1)
                   /\ fast'.end = StorageEnd'
           /\ (last'.op = "fast_deref" /\ last.op = "fast_deref_mut")
                => last'.val = last.val
           /\ (last'.op = "fast_deref_mut" /\ last.op \in {"fast_deref_mut", "fast_deref"}
                 /\ is_owned(content))
                => content'.clones = content.clones ]_vars
    /\ (InFast ~> ~InFast)

C27_Witness ==
    /\ sz > 0
    /\ Len(ext0) = MaxLen
    /\ last = Op("fast_for_each_mut", "done", MaxLen)
    /\ mode = "idle"
    /\ content.tag = "Owned" /\ content.clones = 1
    /\ Contents[1] = ext0[1]
    /\ Contents[MaxLen] # ext0[MaxLen]

\* C28: a write through an outstanding handle leaves the set of elements the
\* traversal has not yet produced as it was - size_hint() is the same before
\* and after it - and in no step of a traversal does the cursor's logical
\* index decrease.
C28_WriteKeepsRemaining ==
    [][ /\ (last'.op = "deref_mut" /\ last'.res = "ok")
             => (CursorLen' = CursorLen /\ CurIdx' = CurIdx)
        /\ (iter /\ iter' /\ last'.op # "iter_mut") => CurIdx' >= CurIdx ]_vars

\* C29: no handle whose owned flag is false is outstanding while the
\* container is Owned, so the assertion of the write path cannot fail.
C29_NoStaleHandle ==
    \A h \in handles : ~h.owned => ~is_owned(content)

\* C30: during a traversal the cursor lies in the container's current
\* storage, start <= current <= end with end one past the last element, a
\* whole number of elements before end, so end - current does not underflow.
C30_CursorInStorage ==
    (iter \/ mode = "foreach")
      => /\ Start <= item /\ item <= end
         /\ end = StorageEnd
         /\ (end - item) % SzMax = 0
         /\ ~SubOverflows
         /\ CursorLen = (end - item) \div SzMax
         /\ CursorLen <= Len(Contents)

C30_Witness ==
    /\ sz > 0
    /\ Len(ext0) = MaxLen
    /\ iter
    /\ content.tag = "Owned" /\ content.clones = 1
    /\ item = end
    /\ end = StorageEnd
    /\ last = Op("deref_mut", "ok", MaxLen - 1)
====
